---------------------------- MODULE Spec2Model ----------------------------
(***************************************************************************)
(* A model of src/src/algorithm/dna_health.rs: the Aho-Corasick automaton  *)
(* (TrieNode, AhoCorasick::add_pattern, build_failure_links, search), the  *)
(* batch driver dna_health and the brute-force oracle dna_health_naive.    *)
(*                                                                         *)
(* Strings are sequences of one-character strings.  State ids and gene     *)
(* indices are 0-based as in the source: the trie is a function on         *)
(* 0..len-1, and gene index i names genes[i+1] of the TLA+ sequence.       *)
(***************************************************************************)
EXTENDS Integers, Sequences, FiniteSets, TLC

(***************************************************************************)
(* Bounds of the model.                                                    *)
(***************************************************************************)
MaxGenes == 2
MaxTotalLen == 4
MaxTextLen == 3
MaxStrands == 2
BatchTotalLen == 1
BatchTextLen == 1
RawGeneLen == 1
RawTextLen == 1
SmallTotalLen == 3
ConcTextLen == 2
WideTextLen == 500
BuildTotalLen == 4

Alphabet == {"a", "b"}
Weights == {-1, 2}

(***************************************************************************)
(* Machine integers.  TLC evaluates with 32-bit integers, so the 64-bit    *)
(* quantities of the source are scaled: UsizeModulus stands for 2^64 (the  *)
(* wrap of `as usize`), I64_MAX and I64_MIN for i64::MAX and i64::MIN.     *)
(* Only their order relative to the small indices and sums of the model    *)
(* matters.                                                                *)
(***************************************************************************)
UsizeModulus == 1073741824
I64_MAX == 2147483647
I64_MIN == (-I64_MAX) - 1

VARIABLES genes, health, strands, trie, pc, gi, queue, k,
          start_gene, end_gene, dna, pos, current, total_health,
          min_health, max_health, sums, result, evals, dequeued

vars == <<genes, health, strands, trie, pc, gi, queue, k,
          start_gene, end_gene, dna, pos, current, total_health,
          min_health, max_health, sums, result, evals, dequeued>>

(***************************************************************************)
(* Generic helpers.                                                        *)
(***************************************************************************)
SeqsUpTo(S, n) == UNION {[1..m -> S] : m \in 0..n}

NonEmptySeqsUpTo(S, n) == UNION {[1..m -> S] : m \in 1..n}

Range(f) == {f[x] : x \in DOMAIN f}

\* every order in which the elements of the finite set S can be enumerated
Orders(S) == {s \in [1..Cardinality(S) -> S] : Range(s) = S}

\* min as an assignment of the latest value
minLatest(a, b) == b

min(a, b) == IF a <= b THEN a ELSE b

max(a, b) == IF a >= b THEN a ELSE b

(***************************************************************************)
(* TrieNode and AhoCorasick::new.                                          *)
(***************************************************************************)
NoChildren == [c \in {} |-> 0]

TrieNodeNew == [children |-> NoChildren, failure |-> 0, output |-> <<>>]

AhoCorasickNew == (0 :> TrieNodeNew)

TrieLen(t) == Cardinality(DOMAIN t)

ContainsKey(t, n, ch) == ch \in DOMAIN t[n].children

(***************************************************************************)
(* AhoCorasick::add_pattern.                                               *)
(***************************************************************************)
RECURSIVE AddWalkAlwaysNew(_, _, _, _)
\* AddWalk allocating a state for every symbol, an existing transition on
\* the symbol replaced
AddWalkAlwaysNew(t, pattern, j, cur) ==
    IF j > Len(pattern) THEN <<t, cur>>
    ELSE LET ch == pattern[j]
             new_node == TrieLen(t)
             pushed == t @@ (new_node :> TrieNodeNew)
             linked == [pushed EXCEPT ![cur].children =
                            (ch :> new_node) @@ pushed[cur].children]
         IN  AddWalkAlwaysNew(linked, pattern, j + 1, new_node)

RECURSIVE AddWalk(_, _, _, _)
\* the for loop over pattern.chars(), from character j on, standing at cur;
\* yields the trie and the node reached
AddWalk(t, pattern, j, cur) ==
    IF j > Len(pattern) THEN <<t, cur>>
    ELSE LET ch == pattern[j] IN
         IF ContainsKey(t, cur, ch)
         THEN AddWalk(t, pattern, j + 1, t[cur].children[ch])
         ELSE LET new_node == TrieLen(t)
                  pushed == t @@ (new_node :> TrieNodeNew)
                  linked == [pushed EXCEPT ![cur].children =
                                 (ch :> new_node) @@ pushed[cur].children]
              IN  AddWalk(linked, pattern, j + 1, new_node)

\* add_pattern storing the entry in place of the terminal state's entries
add_patternOverwrite(t, pattern, gene_index, health_value) ==
    LET w == AddWalk(t, pattern, 1, 0)
    IN  [w[1] EXCEPT ![w[2]].output = <<<<gene_index, health_value>>>>]

add_pattern(t, pattern, gene_index, health_value) ==
    LET w == AddWalk(t, pattern, 1, 0)
    IN  [w[1] EXCEPT ![w[2]].output = Append(@, <<gene_index, health_value>>)]

(***************************************************************************)
(* AhoCorasick::build_failure_links.  A HashMap is enumerated in an        *)
(* unspecified order, so each enumeration of children is any order.        *)
(***************************************************************************)
RECURSIVE LinkWalkEnds(_, _, _, _)
\* the mismatch loop of the linker leaves its `while` within `fuel` steps; a
\* walk of more steps than there are states repeats a state and never ends
LinkWalkEnds(t, failure, ch, fuel) ==
    IF failure # 0 /\ ~ContainsKey(t, failure, ch)
    THEN fuel > 0 /\ LinkWalkEnds(t, t[failure].failure, ch, fuel - 1)
    ELSE TRUE

RECURSIVE LinkWalk(_, _, _)
\* while failure != 0 && !self.trie[failure].children.contains_key(&ch)
LinkWalk(t, failure, ch) ==
    IF failure # 0 /\ ~ContainsKey(t, failure, ch)
    THEN LinkWalk(t, t[failure].failure, ch)
    ELSE failure

\* ChildFailure looking only at the root, not at the parent's failure state
ChildFailureFromRoot(t, cur, ch) ==
    IF ContainsKey(t, 0, ch) THEN t[0].children[ch] ELSE 0

\* the failure state computed for the child of `cur` on `ch`
ChildFailure(t, cur, ch) ==
    LET failure == LinkWalk(t, t[cur].failure, ch)
    IN  IF ContainsKey(t, failure, ch) THEN t[failure].children[ch] ELSE failure

RECURSIVE InitRootChildrenByRule(_, _, _, _)
\* InitRootChildren giving a child of the root the link the general rule
\* computes for it: the root's transition on its symbol, the child itself
InitRootChildrenByRule(t, q, order, j) ==
    IF j > Len(order) THEN <<t, q>>
    ELSE LET child == t[0].children[order[j]]
         IN  InitRootChildrenByRule([t EXCEPT ![child].failure = child],
                                    Append(q, child), order, j + 1)

RECURSIVE InitRootChildren(_, _, _, _)
\* for child in root_children { failure = 0; queue.push_back(child) }
InitRootChildren(t, q, order, j) ==
    IF j > Len(order) THEN <<t, q>>
    ELSE LET child == t[0].children[order[j]]
         IN  InitRootChildren([t EXCEPT ![child].failure = 0],
                              Append(q, child), order, j + 1)

\* a queue popped at its back: the state pushed last, and the rest
pop_back(q) == <<q[Len(q)], SubSeq(q, 1, Len(q) - 1)>>

\* VecDeque::pop_front on a non-empty queue: the state popped, and the rest
pop_front(q) == <<Head(q), Tail(q)>>

RECURSIVE LinkChildrenCarryFrom(_, _, _, _, _, _)
LinkChildrenCarryFrom(t, q, cur, order, j, carried) ==
    IF j > Len(order) THEN <<t, q>>
    ELSE LET ch == order[j]
             child == t[cur].children[ch]
             walked == LinkWalk(t, carried, ch)
             failure == IF ContainsKey(t, walked, ch)
                        THEN t[walked].children[ch] ELSE walked
         IN  LinkChildrenCarryFrom([t EXCEPT ![child].failure = failure],
                                   Append(q, child), cur, order, j + 1, failure)

\* LinkChildren with `failure` declared before the for loop, so that the walk
\* for a child starts where the walk for the previous child ended
LinkChildrenCarry(t, q, cur, order, j) ==
    LinkChildrenCarryFrom(t, q, cur, order, j, t[cur].failure)

RECURSIVE LinkChildrenMergeOutputs(_, _, _, _, _)
\* LinkChildren copying the output of the failure state into the child's
LinkChildrenMergeOutputs(t, q, cur, order, j) ==
    IF j > Len(order) THEN <<t, q>>
    ELSE LET ch == order[j]
             child == t[cur].children[ch]
             f == ChildFailure(t, cur, ch)
         IN  LinkChildrenMergeOutputs(
                 [t EXCEPT ![child].failure = f,
                           ![child].output = @ \o t[f].output],
                 Append(q, child), cur, order, j + 1)

RECURSIVE LinkChildren(_, _, _, _, _)
\* for (ch, child) in children { push_back; walk; assign }, children taken
\* in the order `order` of their keys
LinkChildren(t, q, cur, order, j) ==
    IF j > Len(order) THEN <<t, q>>
    ELSE LET ch == order[j]
             child == t[cur].children[ch]
         IN  LinkChildren([t EXCEPT ![child].failure = ChildFailure(t, cur, ch)],
                          Append(q, child), cur, order, j + 1)

RECURSIVE LinkChildrenEnds(_, _, _, _)
\* every mismatch walk of the for loop over the children of `cur` ends
LinkChildrenEnds(t, cur, order, j) ==
    IF j > Len(order) THEN TRUE
    ELSE LET ch == order[j]
             child == t[cur].children[ch]
         IN  /\ LinkWalkEnds(t, t[cur].failure, ch, TrieLen(t))
             /\ LinkChildrenEnds([t EXCEPT ![child].failure = ChildFailure(t, cur, ch)],
                                 cur, order, j + 1)

(***************************************************************************)
(* AhoCorasick::search, one text character at a time.                      *)
(***************************************************************************)
RECURSIVE SearchWalkEnds(_, _, _, _)
SearchWalkEnds(t, cur, ch, fuel) ==
    IF cur # 0 /\ ~ContainsKey(t, cur, ch)
    THEN fuel > 0 /\ SearchWalkEnds(t, t[cur].failure, ch, fuel - 1)
    ELSE TRUE

\* SearchWalk as a matcher that restarts at the root on a mismatch
SearchWalkRestart(t, cur, ch) ==
    IF cur # 0 /\ ~ContainsKey(t, cur, ch) THEN 0 ELSE cur

\* SearchWalk with `if` for `while`: one failure link is followed at most
SearchWalkOneStep(t, cur, ch) ==
    IF cur # 0 /\ ~ContainsKey(t, cur, ch) THEN t[cur].failure ELSE cur

RECURSIVE SearchWalk(_, _, _)
\* while current != 0 && !self.trie[current].children.contains_key(&ch)
SearchWalk(t, cur, ch) ==
    IF cur # 0 /\ ~ContainsKey(t, cur, ch)
    THEN SearchWalk(t, t[cur].failure, ch)
    ELSE cur

\* Goto without the mismatch loop: the cursor stays where it is when it has
\* no transition on ch
GotoStay(t, cur, ch) ==
    IF ContainsKey(t, cur, ch) THEN t[cur].children[ch] ELSE cur

\* the cursor after consuming ch
Goto(t, cur, ch) ==
    LET c == SearchWalk(t, cur, ch)
    IN  IF ContainsKey(t, c, ch) THEN t[c].children[ch] ELSE c

\* InRange with the end of the range excluded
InRangeEndExcluded(gene_index, s, e) == gene_index >= s /\ gene_index < e

\* gene_index >= start_gene && gene_index <= end_gene
InRange(gene_index, s, e) == gene_index >= s /\ gene_index <= e

RECURSIVE AddOutputsFirstOnly(_, _, _, _, _)
\* AddOutputs leaving the for loop after the first entry in range
AddOutputsFirstOnly(output, j, s, e, acc) ==
    IF j > Len(output) THEN acc
    ELSE IF InRange(output[j][1], s, e) THEN acc + output[j][2]
         ELSE AddOutputsFirstOnly(output, j + 1, s, e, acc)

RECURSIVE AddOutputsMagnitude(_, _, _, _, _)
\* AddOutputs adding the magnitude of every health value
AddOutputsMagnitude(output, j, s, e, acc) ==
    IF j > Len(output) THEN acc
    ELSE AddOutputsMagnitude(output, j + 1, s, e,
             IF InRange(output[j][1], s, e)
             THEN acc + (IF output[j][2] < 0 THEN 0 - output[j][2] ELSE output[j][2])
             ELSE acc)

RECURSIVE AddOutputsSubtracting(_, _, _, _, _)
\* AddOutputs with `-=` for `+=`
AddOutputsSubtracting(output, j, s, e, acc) ==
    IF j > Len(output) THEN acc
    ELSE AddOutputsSubtracting(output, j + 1, s, e,
             IF InRange(output[j][1], s, e) THEN acc - output[j][2] ELSE acc)

RECURSIVE AddOutputs(_, _, _, _, _)
\* for &(gene_index, health_value) in &self.trie[output_node].output
AddOutputs(output, j, s, e, acc) ==
    IF j > Len(output) THEN acc
    ELSE AddOutputs(output, j + 1, s, e,
                    IF InRange(output[j][1], s, e) THEN acc + output[j][2] ELSE acc)

RECURSIVE OutputWalkEnds(_, _, _)
OutputWalkEnds(t, output_node, fuel) ==
    IF output_node # 0
    THEN fuel > 0 /\ OutputWalkEnds(t, t[output_node].failure, fuel - 1)
    ELSE TRUE

\* OutputWalk as a matcher that reports only the patterns ending at the
\* cursor itself and never follows the failure chain
OutputWalkCursorOnly(t, output_node, s, e, acc) ==
    IF output_node # 0
    THEN AddOutputs(t[output_node].output, 1, s, e, acc)
    ELSE acc

RECURSIVE OutputWalkThroughRoot(_, _, _, _, _)
\* OutputWalk as a loop that tests `output_node != 0` after its body: the
\* outputs of the root are added as well
OutputWalkThroughRoot(t, output_node, s, e, acc) ==
    IF output_node # 0
    THEN OutputWalkThroughRoot(t, t[output_node].failure, s, e,
                               AddOutputs(t[output_node].output, 1, s, e, acc))
    ELSE AddOutputs(t[0].output, 1, s, e, acc)

RECURSIVE OutputEntries(_, _)
\* the entries the output walk visits from output_node, in the order visited:
\* the output of every state of the failure chain before the root
OutputEntries(t, output_node) ==
    IF output_node # 0
    THEN t[output_node].output \o OutputEntries(t, t[output_node].failure)
    ELSE <<>>

\* OutputWalk starting at the failure state of the cursor
OutputWalkSkipCursor(t, output_node, s, e, acc) ==
    IF output_node # 0
    THEN OutputWalkCursorOnly(t, t[output_node].failure, s, e, acc)
    ELSE acc

RECURSIVE OutputWalk(_, _, _, _, _)
\* while output_node != 0 { add outputs in range; output_node = failure }
OutputWalk(t, output_node, s, e, acc) ==
    IF output_node # 0
    THEN OutputWalk(t, t[output_node].failure, s, e,
                    AddOutputs(t[output_node].output, 1, s, e, acc))
    ELSE acc

\* the loops of one iteration of `for ch in text.chars()` all end
SearchCharEnds(t, cur, ch) ==
    /\ SearchWalkEnds(t, cur, ch, TrieLen(t))
    /\ OutputWalkEnds(t, Goto(t, cur, ch), TrieLen(t))

RECURSIVE SearchFrom(_, _, _, _, _, _, _)
\* the rest of a search from text position j (0-based), cursor cur, sum acc
SearchFrom(t, text, j, cur, acc, s, e) ==
    IF j >= Len(text) THEN acc
    ELSE LET next == Goto(t, cur, text[j + 1])
         IN  SearchFrom(t, text, j + 1, next, OutputWalk(t, next, s, e, acc), s, e)

\* fn search(&self, text, start_gene, end_gene) -> i64
search(t, text, s, e) == SearchFrom(t, text, 0, 0, 0, s, e)

(***************************************************************************)
(* The automaton of a pattern set built in one go, every HashMap enumerated *)
(* in one fixed order.                                                     *)
(***************************************************************************)
FixedOrder(S) == CHOOSE order \in Orders(S) : TRUE

RECURSIVE AddAll(_, _, _, _)
\* the insertion loop of dna_health from gene j on
AddAll(t, gs, hs, j) ==
    IF j > Len(gs) THEN t
    ELSE AddAll(add_pattern(t, gs[j], j - 1, hs[j]), gs, hs, j + 1)

RECURSIVE AddAllInOrder(_, _, _, _, _)
\* add_pattern called once per gene, each with its own index and health, the
\* genes taken in the order `order` of their positions, from the j-th on
AddAllInOrder(t, gs, hs, order, j) ==
    IF j > Len(order) THEN t
    ELSE AddAllInOrder(add_pattern(t, gs[order[j]], order[j] - 1, hs[order[j]]),
                       gs, hs, order, j + 1)

RECURSIVE LinkLoop(_, _)
\* while let Some(current) = queue.pop_front()
LinkLoop(t, q) ==
    IF q = <<>> THEN t
    ELSE LET popped == pop_front(q)
             r == LinkChildren(t, popped[2], popped[1],
                               FixedOrder(DOMAIN t[popped[1]].children), 1)
         IN  LinkLoop(r[1], r[2])

build_failure_links(t) ==
    LET r == InitRootChildren(t, <<>>, FixedOrder(DOMAIN t[0].children), 1)
    IN  LinkLoop(r[1], r[2])

\* the automaton dna_health builds from gs and hs
Rebuild(gs, hs) == build_failure_links(AddAll(AhoCorasickNew, gs, hs, 1))

(***************************************************************************)
(* Conversions of dna_health: `as usize` and format!("{} {}", ..).         *)
(***************************************************************************)
\* i32 as usize: a negative value wraps
AsUsize(x) == x % UsizeModulus

DigitChar == <<"0", "1", "2", "3", "4", "5", "6", "7", "8", "9">>

RECURSIVE NatDigits(_)
NatDigits(n) ==
    IF n < 10 THEN <<DigitChar[n + 1]>>
    ELSE NatDigits(n \div 10) \o <<DigitChar[(n % 10) + 1]>>

\* Display of an i64: decimal digits, a leading "-" when negative
FormatI64(n) ==
    IF n >= 0 THEN NatDigits(n)
    ELSE LET d == (10 - (n % 10)) % 10
             rest == (0 - (n + d)) \div 10
         IN  <<"-">> \o (IF rest = 0 THEN <<>> ELSE NatDigits(rest))
                     \o <<DigitChar[d + 1]>>

\* FormatResult with the two values in the other order
FormatResultMaxFirst(lo, hi) == FormatI64(hi) \o <<" ">> \o FormatI64(lo)

\* format!("{} {}", min_health, max_health)
FormatResult(lo, hi) == FormatI64(lo) \o <<" ">> \o FormatI64(hi)

(***************************************************************************)
(* dna_health as a function of its arguments.                              *)
(***************************************************************************)
RECURSIVE StrandLoop(_, _, _, _, _)
\* for (start, end, dna) in strands, from strand j on, then the format
StrandLoop(t, ss, j, lo, hi) ==
    IF j > Len(ss) THEN FormatResult(lo, hi)
    ELSE LET strand_health == search(t, ss[j][3], AsUsize(ss[j][1]),
                                     AsUsize(ss[j][2]))
         IN  StrandLoop(t, ss, j + 1, min(lo, strand_health),
                        max(hi, strand_health))

dna_health(gs, hs, ss) == StrandLoop(Rebuild(gs, hs), ss, 1, I64_MAX, I64_MIN)

(***************************************************************************)
(* dna_health_naive.  A slice out of bounds panics.                        *)
(***************************************************************************)
NaivePanic == <<"panic">>

StartsWith(remaining, gene) ==
    /\ Len(gene) <= Len(remaining)
    /\ SubSeq(remaining, 1, Len(gene)) = gene

\* genes[start as usize..=end as usize] is in bounds
SliceOk(gs, s, e) == e < UsizeModulus - 1 /\ s <= e + 1 /\ e + 1 <= Len(gs)

RECURSIVE NaiveGenes(_, _, _, _, _, _)
\* for (gene, gene_health) in &valid_genes, valid_genes being indices s..=e
NaiveGenes(gs, hs, remaining, g, e, acc) ==
    IF g > e THEN acc
    ELSE NaiveGenes(gs, hs, remaining, g + 1, e,
                    IF StartsWith(remaining, gs[g + 1]) THEN acc + hs[g + 1] ELSE acc)

RECURSIVE NaiveStrand(_, _, _, _, _, _, _)
\* for i in 0..dna.len()
NaiveStrand(gs, hs, text, i, s, e, acc) ==
    IF i >= Len(text) THEN acc
    ELSE NaiveStrand(gs, hs, text, i + 1, s, e,
                     NaiveGenes(gs, hs, SubSeq(text, i + 1, Len(text)), s, e, acc))

RECURSIVE NaiveLoop(_, _, _, _, _, _)
\* for (start, end, dna) in strands, from strand j on
NaiveLoop(gs, hs, ss, j, lo, hi) ==
    IF j > Len(ss) THEN FormatResult(lo, hi)
    ELSE LET s == AsUsize(ss[j][1])
             e == AsUsize(ss[j][2])
         IN  IF ~(SliceOk(gs, s, e) /\ SliceOk(hs, s, e)) THEN NaivePanic
             ELSE LET strand_health == NaiveStrand(gs, hs, ss[j][3], 0, s, e, 0)
                  IN  NaiveLoop(gs, hs, ss, j + 1,
                                min(lo, strand_health), max(hi, strand_health))

dna_health_naive(gs, hs, ss) == NaiveLoop(gs, hs, ss, 1, I64_MAX, I64_MIN)

(***************************************************************************)
(* Inputs.                                                                 *)
(***************************************************************************)
RECURSIVE GeneLists(_, _)
\* the lists of at most m non-empty genes whose lengths add up to at most n
GeneLists(n, m) ==
    IF m = 0 THEN {<<>>}
    ELSE {<<>>} \cup UNION {{<<g>> \o rest : rest \in GeneLists(n - Len(g), m - 1)} :
                             g \in NonEmptySeqsUpTo(Alphabet, n)}

RECURSIVE AnyGeneLists(_, _)
\* the lists of at most m genes, the empty gene among them, whose lengths add
\* up to at most n
AnyGeneLists(n, m) ==
    IF m = 0 THEN {<<>>}
    ELSE {<<>>} \cup UNION {{<<g>> \o rest : rest \in AnyGeneLists(n - Len(g), m - 1)} :
                             g \in SeqsUpTo(Alphabet, n)}

\* health values that tell the genes apart: 1, 4, 16, ...  A sum is linear
\* in the health values, and with fewer than 4 occurrences of each gene it
\* determines the number of occurrences counted for every gene.
BasisHealth(gs) == [j \in DOMAIN gs |-> 4 ^ (j - 1)]

\* every assignment of health values of Weights
FreeHealth(gs) == [DOMAIN gs -> Weights]

\* the health values of the documentation's example: 1, 2, ...
DocHealth(gs) == [j \in DOMAIN gs |-> j]

\* strands whose range is a valid inclusive range over n genes
ValidStrands(n, textlen) ==
    {st \in (0..(n - 1)) \X (0..(n - 1)) \X SeqsUpTo(Alphabet, textlen) :
        st[1] <= st[2]}

\* strands as the caller may pass them: any i32 pair near the gene count
AnyStrands(n, textlen) ==
    ((0 - 1)..n) \X ((0 - 1)..n) \X SeqsUpTo(Alphabet, textlen)

InitWithEvals(gs, hs, ss, ev) ==
    /\ genes = gs
    /\ health = hs
    /\ strands = ss
    /\ trie = AhoCorasickNew
    /\ pc = "build"
    /\ gi = 0
    /\ queue = <<>>
    /\ k = 0
    /\ start_gene = 0
    /\ end_gene = 0
    /\ dna = <<>>
    /\ pos = 0
    /\ current = 0
    /\ total_health = 0
    /\ min_health = I64_MAX
    /\ max_health = I64_MIN
    /\ sums = <<>>
    /\ result = <<>>
    /\ evals = ev
    /\ dequeued = <<>>

\* dna_health called: no evaluation of a query is in flight
InitWith(gs, hs, ss) == InitWithEvals(gs, hs, ss, <<>>)

\* one automaton of at most MaxGenes patterns of total length at most
\* MaxTotalLen, and at most one query
Init ==
    \E gs \in GeneLists(MaxTotalLen, MaxGenes) :
      \E ss \in SeqsUpTo(ValidStrands(Len(gs), MaxTextLen), 1) :
        InitWith(gs, BasisHealth(gs), ss)

\* a batch of up to MaxStrands queries, health values of either sign
InitBatch ==
    \E gs \in GeneLists(BatchTotalLen, MaxGenes) :
      \E hs \in FreeHealth(gs) :
        \E ss \in SeqsUpTo(ValidStrands(Len(gs), BatchTextLen), MaxStrands) :
          InitWith(gs, hs, ss)

\* one automaton of at most MaxGenes patterns of total length at most
\* SmallTotalLen, health values of either sign or those of the
\* documentation's example, and at most one query
InitWeights ==
    \E gs \in GeneLists(SmallTotalLen, MaxGenes) :
      \E hs \in FreeHealth(gs) \cup {DocHealth(gs)} :
        \E ss \in SeqsUpTo(ValidStrands(Len(gs), MaxTextLen), 1) :
          InitWith(gs, hs, ss)

\* the construction of the automaton alone: any genes, no query
InitBuild ==
    \E gs \in AnyGeneLists(BuildTotalLen, MaxGenes) :
        InitWith(gs, BasisHealth(gs), <<>>)

\* unvalidated input: empty genes and arbitrary ranges included
InitRaw ==
    \E gs \in SeqsUpTo(SeqsUpTo(Alphabet, RawGeneLen), MaxGenes) :
      \E ss \in SeqsUpTo(AnyStrands(Len(gs), RawTextLen), 1) :
        InitWith(gs, BasisHealth(gs), ss)

(***************************************************************************)
(* dna_health, one loop iteration per step.                                *)
(***************************************************************************)
\* for (i, gene) in genes.iter().enumerate() { add_pattern(gene, i, health[i]) }
AddPattern ==
    /\ pc = "build"
    /\ gi < Len(genes)
    /\ trie' = add_pattern(trie, genes[gi + 1], gi, health[gi + 1])
    /\ gi' = gi + 1
    /\ UNCHANGED <<dequeued, evals, genes, health, strands, pc, queue, k,
                   start_gene, end_gene, dna, pos, current, total_health,
                   min_health, max_health, sums, result>>

\* LinkInit entering the BFS loop as if the queue always held a state
LinkInitEntersLoop ==
    /\ pc = "build"
    /\ gi = Len(genes)
    /\ \E order \in Orders(DOMAIN trie[0].children) :
         LET r == InitRootChildren(trie, <<>>, order, 1)
         IN  /\ trie' = r[1]
             /\ queue' = r[2]
             /\ pc' = "link"
    /\ UNCHANGED <<dequeued, evals, genes, health, strands, gi, k, start_gene,
                   end_gene, dna, pos, current, total_health, min_health,
                   max_health, sums, result>>

\* build_failure_links up to its BFS loop: the children of the root
LinkInit ==
    /\ pc = "build"
    /\ gi = Len(genes)
    /\ \E order \in Orders(DOMAIN trie[0].children) :
         LET r == InitRootChildren(trie, <<>>, order, 1)
         IN  /\ trie' = r[1]
             /\ queue' = r[2]
             /\ pc' = IF r[2] = <<>> THEN "strands" ELSE "link"
    /\ UNCHANGED <<dequeued, evals, genes, health, strands, gi, k, start_gene,
                   end_gene, dna, pos, current, total_health, min_health,
                   max_health, sums, result>>

\* one iteration of `while let Some(current) = queue.pop_front()`, the
\* record of the states popped left aside
LinkStepBody ==
    /\ pc = "link"
    /\ queue # <<>>
    /\ LET popped == pop_front(queue)
           cur == popped[1]
       IN  \E order \in Orders(DOMAIN trie[cur].children) :
             IF LinkChildrenEnds(trie, cur, order, 1)
             THEN LET r == LinkChildren(trie, popped[2], cur, order, 1)
                  IN  /\ trie' = r[1]
                      /\ queue' = r[2]
                      /\ pc' = IF r[2] = <<>> THEN "strands" ELSE "link"
             ELSE /\ pc' = "hang"
                  /\ UNCHANGED <<trie, queue>>
    /\ UNCHANGED <<evals, genes, health, strands, gi, k, start_gene, end_gene,
                   dna, pos, current, total_health, min_health, max_health,
                   sums, result>>

LinkStep == LinkStepBody /\ UNCHANGED dequeued

\* LinkStep with the state popped appended to the record `dequeued`
LinkStepRecorded ==
    LinkStepBody /\ dequeued' = Append(dequeued, pop_front(queue)[1])

\* StartSearch with the accumulator carried over from the previous search
StartSearchKeepTotal ==
    /\ pc = "strands"
    /\ k < Len(strands)
    /\ start_gene' = AsUsize(strands[k + 1][1])
    /\ end_gene' = AsUsize(strands[k + 1][2])
    /\ dna' = strands[k + 1][3]
    /\ pos' = 0
    /\ current' = 0
    /\ pc' = "search"
    /\ UNCHANGED <<dequeued, evals, genes, health, strands, trie, gi, queue,
                   k, total_health, min_health, max_health, sums, result>>

\* for (start, end, dna) in strands: the call of search and its first lines
StartSearch ==
    /\ pc = "strands"
    /\ k < Len(strands)
    /\ start_gene' = AsUsize(strands[k + 1][1])
    /\ end_gene' = AsUsize(strands[k + 1][2])
    /\ dna' = strands[k + 1][3]
    /\ pos' = 0
    /\ current' = 0
    /\ total_health' = 0
    /\ pc' = "search"
    /\ UNCHANGED <<dequeued, evals, genes, health, strands, trie, gi, queue,
                   k, min_health, max_health, sums, result>>

\* SearchStep as a matcher that caches the transition it took in the
\* children of the state it stood in
SearchStepCaching ==
    /\ pc = "search"
    /\ pos < Len(dna)
    /\ LET ch == dna[pos + 1]
           next == Goto(trie, current, ch)
       IN  /\ current' = next
           /\ total_health' = OutputWalk(trie, next, start_gene, end_gene,
                                         total_health)
           /\ trie' = IF next = 0 THEN trie
                      ELSE [trie EXCEPT ![current].children = (ch :> next) @@ @]
           /\ pos' = pos + 1
    /\ UNCHANGED <<dequeued, evals, genes, health, strands, pc, gi, queue, k,
                   start_gene, end_gene, dna, min_health, max_health, sums,
                   result>>

\* one iteration of `for ch in text.chars()`
SearchStep ==
    /\ pc = "search"
    /\ pos < Len(dna)
    /\ LET ch == dna[pos + 1]
       IN  IF SearchCharEnds(trie, current, ch)
           THEN /\ current' = Goto(trie, current, ch)
                /\ total_health' = OutputWalk(trie, Goto(trie, current, ch),
                                              start_gene, end_gene, total_health)
                /\ pos' = pos + 1
                /\ pc' = pc
           ELSE /\ pc' = "hang"
                /\ UNCHANGED <<current, total_health, pos>>
    /\ UNCHANGED <<dequeued, evals, genes, health, strands, trie, gi, queue,
                   k, start_gene, end_gene, dna, min_health, max_health, sums,
                   result>>

\* search returns total_health; the strand's min/max update
EndSearch ==
    /\ pc = "search"
    /\ pos = Len(dna)
    /\ sums' = Append(sums, total_health)
    /\ min_health' = min(min_health, total_health)
    /\ max_health' = max(max_health, total_health)
    /\ k' = k + 1
    /\ pc' = "strands"
    /\ UNCHANGED <<dequeued, evals, genes, health, strands, trie, gi, queue,
                   start_gene, end_gene, dna, pos, current, total_health,
                   result>>

\* let result = format!("{} {}", min_health, max_health); result
Return ==
    /\ pc = "strands"
    /\ k = Len(strands)
    /\ result' = FormatResult(min_health, max_health)
    /\ pc' = "done"
    /\ UNCHANGED <<dequeued, evals, genes, health, strands, trie, gi, queue,
                   k, start_gene, end_gene, dna, pos, current, total_health,
                   min_health, max_health, sums>>

(***************************************************************************)
(* Several calls of search in flight at once over the one automaton, as    *)
(* section 5 of the design allows: evaluation p works on strands[p] with   *)
(* its own position, cursor and accumulator in evals[p], and the steps of  *)
(* the evaluations interleave.  Each step is the step of search.           *)
(***************************************************************************)
Procs == {1, 2}

IdleEval == [phase |-> "idle", start_gene |-> 0, end_gene |-> 0, dna |-> <<>>,
             pos |-> 0, current |-> 0, total_health |-> 0]

\* queries over the whole range of n genes
FullRangeStrands(n, textlen) ==
    {st \in ValidStrands(n, textlen) : st[1] = 0 /\ st[2] = n - 1}

\* one automaton and one query for each evaluation
InitConc ==
    \E gs \in GeneLists(SmallTotalLen, MaxGenes) :
      \E ss \in [Procs -> FullRangeStrands(Len(gs), ConcTextLen)] :
        InitWithEvals(gs, BasisHealth(gs), ss, [p \in Procs |-> IdleEval])

\* evaluation p enters search: let mut current = 0; let mut total_health = 0
ConcStart(p) ==
    /\ pc = "strands"
    /\ evals[p].phase = "idle"
    /\ evals' = [evals EXCEPT ![p] =
                   [phase |-> "run",
                    start_gene |-> AsUsize(strands[p][1]),
                    end_gene |-> AsUsize(strands[p][2]),
                    dna |-> strands[p][3],
                    pos |-> 0, current |-> 0, total_health |-> 0]]
    /\ UNCHANGED <<dequeued, genes, health, strands, trie, pc, gi, queue, k,
                   start_gene, end_gene, dna, pos, current, total_health,
                   min_health, max_health, sums, result>>

\* ConcStep with the cursor kept in one place for all evaluations
ConcStepSharedCursor(p) ==
    /\ pc = "strands"
    /\ evals[p].phase = "run"
    /\ evals[p].pos < Len(evals[p].dna)
    /\ LET e == evals[p]
           next == Goto(trie, current, e.dna[e.pos + 1])
       IN  /\ current' = next
           /\ evals' = [evals EXCEPT ![p].current = next,
                           ![p].total_health =
                               OutputWalk(trie, next, e.start_gene, e.end_gene,
                                          e.total_health),
                           ![p].pos = e.pos + 1]
    /\ UNCHANGED <<dequeued, genes, health, strands, trie, pc, gi, queue, k,
                   start_gene, end_gene, dna, pos, total_health, min_health,
                   max_health, sums, result>>

\* one iteration of `for ch in text.chars()` of evaluation p
ConcStep(p) ==
    /\ pc = "strands"
    /\ evals[p].phase = "run"
    /\ evals[p].pos < Len(evals[p].dna)
    /\ LET e == evals[p]
           ch == e.dna[e.pos + 1]
       IN  IF SearchCharEnds(trie, e.current, ch)
           THEN /\ evals' = [evals EXCEPT
                               ![p].current = Goto(trie, e.current, ch),
                               ![p].total_health =
                                   OutputWalk(trie, Goto(trie, e.current, ch),
                                              e.start_gene, e.end_gene,
                                              e.total_health),
                               ![p].pos = e.pos + 1]
                /\ pc' = pc
           ELSE /\ pc' = "hang"
                /\ UNCHANGED evals
    /\ UNCHANGED <<dequeued, genes, health, strands, trie, gi, queue, k,
                   start_gene, end_gene, dna, pos, current, total_health,
                   min_health, max_health, sums, result>>

\* evaluation p returns total_health, which enters the min/max reduction
ConcEnd(p) ==
    /\ pc = "strands"
    /\ evals[p].phase = "run"
    /\ evals[p].pos = Len(evals[p].dna)
    /\ evals' = [evals EXCEPT ![p].phase = "done"]
    /\ sums' = Append(sums, evals[p].total_health)
    /\ min_health' = min(min_health, evals[p].total_health)
    /\ max_health' = max(max_health, evals[p].total_health)
    /\ k' = k + 1
    /\ UNCHANGED <<dequeued, genes, health, strands, trie, pc, gi, queue,
                   start_gene, end_gene, dna, pos, current, total_health,
                   result>>

\* every evaluation has returned: the result is formatted
ConcReturn ==
    /\ pc = "strands"
    /\ \A p \in Procs : evals[p].phase = "done"
    /\ result' = FormatResult(min_health, max_health)
    /\ pc' = "done"
    /\ UNCHANGED <<dequeued, evals, genes, health, strands, trie, gi, queue,
                   k, start_gene, end_gene, dna, pos, current, total_health,
                   min_health, max_health, sums>>

NextConc ==
    \/ AddPattern
    \/ LinkInit
    \/ LinkStep
    \/ \E p \in Procs : ConcStart(p)
    \/ \E p \in Procs : ConcStep(p)
    \/ \E p \in Procs : ConcEnd(p)
    \/ ConcReturn

Next ==
    \/ AddPattern
    \/ LinkInit
    \/ LinkStep
    \/ StartSearch
    \/ SearchStep
    \/ EndSearch
    \/ Return

Spec == Init /\ [][Next]_vars

SpecBatch == InitBatch /\ [][Next]_vars

(***************************************************************************)
(* The integers of search and dna_health at their full width.  An i64 is   *)
(* its two's complement in four limbs of 16 bits, least significant first, *)
(* so that sums beyond 32 bits are computed as the machine computes them.  *)
(***************************************************************************)
LimbBase == 2 ^ 16

LimbCount == 64 \div 16

\* the i64 of an integer that fits 32 bits
I64FromInt(n) ==
    IF n >= 0
    THEN <<n % LimbBase, n \div LimbBase, 0, 0>>
    ELSE LET m == 0 - (n + 1)
         IN  <<LimbBase - 1 - (m % LimbBase), LimbBase - 1 - (m \div LimbBase),
               LimbBase - 1, LimbBase - 1>>

\* i64::MAX and i64::MIN
I64MaxLimbs == <<LimbBase - 1, LimbBase - 1, LimbBase - 1, (LimbBase \div 2) - 1>>

\* the negation of i64::MAX, one above i64::MIN
I64MinAsNegatedMax == <<1, 0, 0, LimbBase \div 2>>

I64MinLimbs == <<0, 0, 0, LimbBase \div 2>>

RECURSIVE AddLimbs(_, _, _, _, _)
\* limbs j..n of a + b with the carry into limb j; the carry out of limb n
\* is dropped
AddLimbs(a, b, j, n, carry) ==
    IF j > n THEN <<>>
    ELSE LET s == a[j] + b[j] + carry
         IN  <<s % LimbBase>> \o AddLimbs(a, b, j + 1, n, s \div LimbBase)

\* the sign bit of the limb holding it
IsNegativeLimb(l) == l >= LimbBase \div 2

\* `+=` on an accumulator of 32 bits: the low two limbs, sign-extended
AddI32(a, b) ==
    LET low == AddLimbs(a, b, 1, 2, 0)
        ext == IF IsNegativeLimb(low[2]) THEN LimbBase - 1 ELSE 0
    IN  low \o <<ext, ext>>

\* total_health += health_value, on i64
AddI64(a, b) == AddLimbs(a, b, 1, LimbCount, 0)

IsNegativeI64(a) == IsNegativeLimb(a[LimbCount])

RECURSIVE LessFromLimb(_, _, _)
\* a < b as unsigned numbers, compared from limb j down
LessFromLimb(a, b, j) ==
    IF j = 0 THEN FALSE
    ELSE IF a[j] # b[j] THEN a[j] < b[j]
         ELSE LessFromLimb(a, b, j - 1)

\* a <= b on i64
LeI64(a, b) ==
    IF IsNegativeI64(a) # IsNegativeI64(b) THEN IsNegativeI64(a)
    ELSE ~LessFromLimb(b, a, LimbCount)

\* std::cmp::min and std::cmp::max on i64
minI64(a, b) == IF LeI64(a, b) THEN a ELSE b

maxI64(a, b) == IF LeI64(a, b) THEN b ELSE a

\* the magnitude of a negative i64 as an unsigned number
MagnitudeOfNegative(a) ==
    AddLimbs([j \in 1..LimbCount |-> LimbBase - 1 - a[j]],
             I64FromInt(1), 1, LimbCount, 0)

RECURSIVE DivTenFrom(_, _, _)
\* an unsigned number divided by 10 from limb j down, rem carried in:
\* <<quotient limbs j..1 (least significant first), remainder>>
DivTenFrom(u, j, rem) ==
    IF j = 0 THEN <<<<>>, rem>>
    ELSE LET cur == rem * LimbBase + u[j]
             rest == DivTenFrom(u, j - 1, cur % 10)
         IN  <<Append(rest[1], cur \div 10), rest[2]>>

RECURSIVE MagnitudeDigits(_)
\* the decimal digits of an unsigned number
MagnitudeDigits(u) ==
    LET qr == DivTenFrom(u, LimbCount, 0)
    IN  IF \A j \in 1..LimbCount : qr[1][j] = 0
        THEN <<DigitChar[qr[2] + 1]>>
        ELSE Append(MagnitudeDigits(qr[1]), DigitChar[qr[2] + 1])

\* Display of an i64
FormatI64Limbs(a) ==
    IF IsNegativeI64(a) THEN <<"-">> \o MagnitudeDigits(MagnitudeOfNegative(a))
    ELSE MagnitudeDigits(a)

\* format!("{} {}", min_health, max_health)
FormatResultI64(lo, hi) == FormatI64Limbs(lo) \o <<" ">> \o FormatI64Limbs(hi)

RECURSIVE AddOutputsI64(_, _, _, _, _)
\* for &(gene_index, health_value) in &self.trie[output_node].output
AddOutputsI64(output, j, s, e, acc) ==
    IF j > Len(output) THEN acc
    ELSE AddOutputsI64(output, j + 1, s, e,
                       IF InRange(output[j][1], s, e)
                       THEN AddI64(acc, I64FromInt(output[j][2])) ELSE acc)

RECURSIVE OutputWalkI64(_, _, _, _, _)
\* while output_node != 0 { add outputs in range; output_node = failure }
OutputWalkI64(t, output_node, s, e, acc) ==
    IF output_node # 0
    THEN OutputWalkI64(t, t[output_node].failure, s, e,
                       AddOutputsI64(t[output_node].output, 1, s, e, acc))
    ELSE acc

\* health values that take the sum of one match per text position beyond
\* 32 bits within WideTextLen positions
WideWeights == {10000000, 1000000000, 0 - 1000000000}

\* the text of n symbols "a"
Repeated(n) == [j \in 1..n |-> "a"]

\* two queries over the one pattern, a long text and one of half its length,
\* in either order; one query; no query
WideStrands ==
    {<<<<0, 0, Repeated(WideTextLen \div 2)>>, <<0, 0, Repeated(WideTextLen)>>>>,
     <<<<0, 0, Repeated(WideTextLen)>>, <<0, 0, Repeated(WideTextLen \div 2)>>>>,
     <<<<0, 0, Repeated(WideTextLen \div 2)>>>>,
     <<>>}

\* the pattern "a" with a large health value, matched once per text position
InitWide ==
    \E w \in WideWeights :
      \E ss \in WideStrands :
        /\ genes = <<<<"a">>>>
        /\ health = <<w>>
        /\ strands = ss
        /\ trie = AhoCorasickNew
        /\ pc = "build"
        /\ gi = 0
        /\ queue = <<>>
        /\ k = 0
        /\ start_gene = 0
        /\ end_gene = 0
        /\ dna = <<>>
        /\ pos = 0
        /\ current = 0
        /\ total_health = I64FromInt(0)
        /\ min_health = I64MaxLimbs
        /\ max_health = I64MinLimbs
        /\ sums = <<>>
        /\ result = <<>>
        /\ evals = <<>>
        /\ dequeued = <<>>

\* search is entered: let mut current = 0; let mut total_health = 0
WideStartSearch ==
    /\ pc = "strands"
    /\ k < Len(strands)
    /\ start_gene' = AsUsize(strands[k + 1][1])
    /\ end_gene' = AsUsize(strands[k + 1][2])
    /\ dna' = strands[k + 1][3]
    /\ pos' = 0
    /\ current' = 0
    /\ total_health' = I64FromInt(0)
    /\ pc' = "search"
    /\ UNCHANGED <<dequeued, evals, genes, health, strands, trie, gi, queue,
                   k, min_health, max_health, sums, result>>

\* one iteration of `for ch in text.chars()`
WideSearchStep ==
    /\ pc = "search"
    /\ pos < Len(dna)
    /\ LET ch == dna[pos + 1]
       IN  IF SearchCharEnds(trie, current, ch)
           THEN /\ current' = Goto(trie, current, ch)
                /\ total_health' = OutputWalkI64(trie, Goto(trie, current, ch),
                                                 start_gene, end_gene, total_health)
                /\ pos' = pos + 1
                /\ pc' = pc
           ELSE /\ pc' = "hang"
                /\ UNCHANGED <<current, total_health, pos>>
    /\ UNCHANGED <<dequeued, evals, genes, health, strands, trie, gi, queue,
                   k, start_gene, end_gene, dna, min_health, max_health, sums,
                   result>>

\* search returns total_health; the strand's min/max update
WideEndSearch ==
    /\ pc = "search"
    /\ pos = Len(dna)
    /\ sums' = Append(sums, total_health)
    /\ min_health' = minI64(min_health, total_health)
    /\ max_health' = maxI64(max_health, total_health)
    /\ k' = k + 1
    /\ pc' = "strands"
    /\ UNCHANGED <<dequeued, evals, genes, health, strands, trie, gi, queue,
                   start_gene, end_gene, dna, pos, current, total_health,
                   result>>

\* let result = format!("{} {}", min_health, max_health); result
WideReturn ==
    /\ pc = "strands"
    /\ k = Len(strands)
    /\ result' = FormatResultI64(min_health, max_health)
    /\ pc' = "done"
    /\ UNCHANGED <<dequeued, evals, genes, health, strands, trie, gi, queue,
                   k, start_gene, end_gene, dna, pos, current, total_health,
                   min_health, max_health, sums>>

NextWide ==
    \/ AddPattern
    \/ LinkInit
    \/ LinkStep
    \/ WideStartSearch
    \/ WideSearchStep
    \/ WideEndSearch
    \/ WideReturn

SpecWide == InitWide /\ [][NextWide]_vars

\* the insertions and build_failure_links, the states popped recorded
NextBuild ==
    \/ AddPattern
    \/ LinkInit
    \/ LinkStepRecorded

SpecBuild == InitBuild /\ [][NextBuild]_vars

\* the construction runs on while it has a step to take
SpecBuildLive == SpecBuild /\ WF_vars(NextBuild)

SpecConc == InitConc /\ [][NextConc]_vars

SpecWeights == InitWeights /\ [][Next]_vars

SpecRaw == InitRaw /\ [][Next]_vars

(***************************************************************************)
(* Reference notions the properties are stated with.                       *)
(***************************************************************************)
PatternCount == Len(genes)

\* build_failure_links has returned
Linked == pc \in {"strands", "search", "done"}

\* dna_health stands between two queries: after linking, or after a search
BetweenQueries == pc = "strands"

\* pattern p occurs in text at 0-based offset off
OccursAt(p, text, off) ==
    /\ off + Len(p) <= Len(text)
    /\ SubSeq(text, off + 1, off + Len(p)) = p

Occurrences(p, text) ==
    Cardinality({off \in 0..(Len(text) - 1) : OccursAt(p, text, off)})

RECURSIVE OccurrenceSumFrom(_, _, _, _, _, _)
OccurrenceSumFrom(gs, hs, text, lo, hi, j) ==
    IF j > Len(gs) THEN 0
    ELSE (IF lo <= j - 1 /\ j - 1 <= hi
          THEN hs[j] * Occurrences(gs[j], text) ELSE 0)
         + OccurrenceSumFrom(gs, hs, text, lo, hi, j + 1)

\* the sum, over the genes with index in lo..hi and the offsets of text where
\* the gene occurs, of the gene's health
OccurrenceSum(gs, hs, text, lo, hi) == OccurrenceSumFrom(gs, hs, text, lo, hi, 1)

FullRange(st) == st[1] = 0 /\ st[2] = PatternCount - 1

Suffix(s, n) == SubSeq(s, Len(s) - n + 1, Len(s))

IsProperSuffix(p, s) == Len(p) < Len(s) /\ Suffix(s, Len(p)) = p

\* the parent of a non-root state and the symbol of its incoming transition
Incoming(t, n) ==
    CHOOSE pch \in (DOMAIN t) \X Alphabet :
        ContainsKey(t, pch[1], pch[2]) /\ t[pch[1]].children[pch[2]] = n

RECURSIVE PathOf(_, _)
\* the symbols on the path from the root to state n
PathOf(t, n) ==
    IF n = 0 THEN <<>>
    ELSE LET pch == Incoming(t, n) IN Append(PathOf(t, pch[1]), pch[2])

Depth(t, n) == Len(PathOf(t, n))

RECURSIVE StatesFrom(_, _, _, _)
StatesFrom(t, str, j, n) ==
    IF j > Len(str) THEN {n}
    ELSE IF ContainsKey(t, n, str[j])
         THEN StatesFrom(t, str, j + 1, t[n].children[str[j]])
         ELSE {}

\* the states the transitions lead to from the root along str: one state
\* when str is a path of t, none otherwise
StatesOf(t, str) == StatesFrom(t, str, 1, 0)

\* the state of the longest proper suffix of n's path that is a path
LongestSuffixState(t, n) ==
    LET str == PathOf(t, n)
        lens == {m \in 0..(Len(str) - 1) : StatesOf(t, Suffix(str, m)) # {}}
        best == CHOOSE m \in lens : \A o \in lens : o <= m
    IN  CHOOSE f \in StatesOf(t, Suffix(str, best)) : TRUE

SeqMin(s) == CHOOSE x \in Range(s) : \A y \in Range(s) : x <= y

SeqMax(s) == CHOOSE x \in Range(s) : \A y \in Range(s) : x >= y

DigitValue(c) == CHOOSE d \in 0..9 : DigitChar[d + 1] = c

\* a decimal integer as a reader of the output accepts it
IsDecimal(cs) ==
    LET ds == IF cs # <<>> /\ cs[1] = "-" THEN Tail(cs) ELSE cs
    IN  /\ ds # <<>>
        /\ \A j \in DOMAIN ds : ds[j] \in Range(DigitChar)
        /\ Len(ds) > 1 => ds[1] # "0"

RECURSIVE ParseNat(_)
ParseNat(ds) ==
    IF ds = <<>> THEN 0
    ELSE 10 * ParseNat(SubSeq(ds, 1, Len(ds) - 1)) + DigitValue(ds[Len(ds)])

ParseI64(cs) == IF cs[1] = "-" THEN 0 - ParseNat(Tail(cs)) ELSE ParseNat(cs)

(***************************************************************************)
(* Properties.                                                             *)
(***************************************************************************)
\* C1: over non-empty patterns, every search over the full range
\* [0, pattern_count-1] returns the sum, over every pattern and every offset
\* of the text where it occurs (overlapping and nested occurrences each
\* counted), of the pattern's weight.
C1_FullRangeSum ==
    \A j \in DOMAIN sums :
        FullRange(strands[j]) =>
            sums[j] = OccurrenceSum(genes, health, strands[j][3], 0, PatternCount - 1)

\* C1 witness: a full-range search has returned over a text in which one
\* pattern overlaps itself and another pattern ends where a longer one ends.
C1_Witness ==
    /\ Len(sums) = 1
    /\ FullRange(strands[1])
    /\ \E a, b \in DOMAIN genes :
         /\ IsProperSuffix(genes[a], genes[b])
         /\ Occurrences(genes[b], strands[1][3]) >= 1
         /\ Occurrences(genes[a], strands[1][3]) >= 2
    /\ sums[1] >= 3

\* C2: on non-empty genes and valid ranges, dna_health returns exactly the
\* string dna_health_naive returns on the same input.
C2_AgreesWithNaive ==
    pc = "done" => result = dna_health_naive(genes, health, strands)

\* C2 witness: both implementations have returned the same non-zero sum of a
\* query in which two genes match.
C2_Witness ==
    /\ pc = "done"
    /\ Len(strands) = 1
    /\ \E a, b \in DOMAIN genes :
         /\ a # b
         /\ Occurrences(genes[a], strands[1][3]) >= 1
         /\ Occurrences(genes[b], strands[1][3]) >= 1
         /\ InRange(a - 1, strands[1][1], strands[1][2])
         /\ InRange(b - 1, strands[1][1], strands[1][2])
    /\ sums[1] # 0
    /\ result = dna_health_naive(genes, health, strands)
    /\ result # NaivePanic

\* C3: the sum of a query (start, end, text) is the weighted occurrence count
\* of exactly the patterns whose index lies in start..end, both bounds
\* included; at every step of a search the sum so far counts the occurrences
\* of those patterns in the text consumed, and of no other pattern.
C3_RangeFilter ==
    /\ \A j \in DOMAIN sums :
         sums[j] = OccurrenceSum(genes, health, strands[j][3],
                                 strands[j][1], strands[j][2])
    /\ pc = "search" =>
         total_health = OccurrenceSum(genes, health, SubSeq(dna, 1, pos),
                                      start_gene, end_gene)

\* C3 witness: a query has returned whose range holds one pattern, equal to
\* both of its bounds, that occurs in the text, and leaves out a pattern that
\* occurs in the text as well.
C3_Witness ==
    /\ Len(sums) = 1
    /\ strands[1][1] = strands[1][2]
    /\ Occurrences(genes[strands[1][1] + 1], strands[1][3]) >= 1
    /\ sums[1] > 0
    /\ \E o \in DOMAIN genes :
         /\ ~InRange(o - 1, strands[1][1], strands[1][2])
         /\ Occurrences(genes[o], strands[1][3]) >= 1

\* C4: with at least one query, the result is "<min> <max>": two decimal
\* integers separated by one space, the first the minimum and the second the
\* maximum of the per-query sums, each the sum of some query of the batch.
C4_MinMaxRendered ==
    (pc = "done" /\ Len(strands) >= 1) =>
        /\ Len(sums) = Len(strands)
        /\ \E sp \in DOMAIN result :
             LET lhs == SubSeq(result, 1, sp - 1)
                 rhs == SubSeq(result, sp + 1, Len(result))
             IN  /\ result[sp] = " "
                 /\ \A o \in DOMAIN result : result[o] = " " => o = sp
                 /\ IsDecimal(lhs)
                 /\ IsDecimal(rhs)
                 /\ ParseI64(lhs) = SeqMin(sums)
                 /\ ParseI64(rhs) = SeqMax(sums)
                 /\ ParseI64(lhs) \in Range(sums)
                 /\ ParseI64(rhs) \in Range(sums)

\* C4 witness: a batch of two queries has returned, the second query giving
\* the negative minimum and the first the larger maximum.
C4_Witness ==
    /\ pc = "done"
    /\ Len(strands) = 2
    /\ sums = <<0, 0 - 1>>
    /\ result = <<"-", "1", " ", "0">>


\* C5: building the automaton fails whenever a submitted pattern is empty:
\* with an empty pattern among the genes, dna_health never gets past the
\* insertion of the patterns.
C5_EmptyPatternRejected ==
    (\E j \in DOMAIN genes : genes[j] = <<>>) => ~Linked

\* C6: a query whose range is inverted (start > end) fails before any
\* matching work begins: no search is ever running or returning for it.
C6_InvertedRangeRejected ==
    /\ pc = "search" => ~(strands[k + 1][1] > strands[k + 1][2])
    /\ \A j \in DOMAIN sums : ~(strands[j][1] > strands[j][2])

\* C7: a query with start or end outside [0, pattern_count-1] fails: no
\* search is ever running or returning for it, so no range is clamped.
C7_OutOfBoundsRejected ==
    /\ pc = "search" =>
         /\ strands[k + 1][1] \in 0..(PatternCount - 1)
         /\ strands[k + 1][2] \in 0..(PatternCount - 1)
    /\ \A j \in DOMAIN sums :
         /\ strands[j][1] \in 0..(PatternCount - 1)
         /\ strands[j][2] \in 0..(PatternCount - 1)

\* C8: once build_failure_links has returned (and still after each query),
\* the failure link of every non-root state is the state of the longest
\* proper suffix of its path that is a path from the root (the root when only
\* the empty suffix is), and the root's failure is the root.
C8_FailureIsLongestSuffix ==
    BetweenQueries =>
        /\ trie[0].failure = 0
        /\ \A n \in DOMAIN trie \ {0} :
             trie[n].failure = LongestSuffixState(trie, n)

\* C8 witness: a linked automaton with a state whose failure link lies two
\* symbols deep, and a state whose link was found only after the mismatch
\* loop of the linker stepped down from the parent's failure state.
C8_Witness ==
    /\ BetweenQueries
    /\ \E n \in DOMAIN trie : Depth(trie, trie[n].failure) >= 2
    /\ \E n \in DOMAIN trie \ {0} :
         LET pch == Incoming(trie, n)
             pf == trie[pch[1]].failure
         IN  pf # 0 /\ ~ContainsKey(trie, pf, pch[2])

\* C9: after linking, every non-root state's failure state is strictly
\* shallower than the state, and no failure-chain walk of the linker or of
\* the matcher (mismatch loop, output walk) runs on for ever.
C9_FailureDepthDecreases ==
    /\ pc # "hang"
    /\ BetweenQueries =>
         \A n \in DOMAIN trie \ {0} :
             Depth(trie, trie[n].failure) < Depth(trie, n)

\* C9 witness: a search has consumed a text over a linked automaton that has
\* a failure chain of three links.
C9_Witness ==
    /\ BetweenQueries
    /\ Len(sums) = 1
    /\ Len(strands[1][3]) = MaxTextLen
    /\ \E n \in DOMAIN trie : trie[trie[n].failure].failure # 0


\* C10: whatever order the linker enumerated the children of the root and of
\* each dequeued state in, the automaton is the one a rebuild from the same
\* pattern set gives, and every query's sum is the sum the same query gives
\* on the rebuilt automaton.
C10_RebuildSameSum ==
    BetweenQueries =>
        LET rebuilt == Rebuild(genes, health)
        IN  /\ trie = rebuilt
            /\ \A j \in DOMAIN sums :
                 sums[j] = search(rebuilt, strands[j][3],
                                  AsUsize(strands[j][1]), AsUsize(strands[j][2]))

\* C10 witness: a query has returned a non-zero sum over an automaton in
\* which a dequeued state has two children, which the linker may have
\* enumerated in either order.
C10_Witness ==
    /\ BetweenQueries
    /\ Len(sums) = 1
    /\ sums[1] # 0
    /\ \E n \in DOMAIN trie \ {0} : Cardinality(DOMAIN trie[n].children) = 2


\* C11: the result of dna_health is the same for every permutation of the
\* query list: the strand loop over the automaton of the genes, run on the
\* queries in any order, ends in the result reported.
C11_QueryOrderIrrelevant ==
    pc = "done" =>
        LET t == Rebuild(genes, health)
        IN  \A perm \in Orders(DOMAIN strands) :
                StrandLoop(t, [j \in DOMAIN strands |-> strands[perm[j]]],
                           1, I64_MAX, I64_MIN) = result

\* C11 witness: a batch of two queries with different sums has returned.
C11_Witness ==
    /\ pc = "done"
    /\ Len(strands) = 2
    /\ sums[1] # sums[2]
    /\ min_health < max_health


\* C12: a search leaves the automaton unchanged: from the call of search to
\* its return the trie (its states, their transitions, failure links and
\* outputs) stays the same, and a step of the search changes nothing but the
\* text position, the cursor and the accumulator.
C12_SearchLeavesAutomaton ==
    [][/\ (pc = "search" \/ pc' = "search") => trie' = trie
       /\ (pc = "search" /\ pc' = "search") =>
              UNCHANGED <<genes, health, strands, gi, queue, k, start_gene,
                          end_gene, dna, min_health, max_health, sums, result>>
      ]_vars

\* C12 witness: a search has consumed its text, moved the cursor off the
\* root along a failure link's target and counted matches.
C12_Witness ==
    /\ pc = "search"
    /\ pos = Len(dna)
    /\ pos >= 2
    /\ current # 0
    /\ trie[current].failure # 0
    /\ total_health # 0


\* the sum evaluation p's query gives when it runs alone, on the text up to
\* position n
AloneSum(p, n) ==
    search(trie, SubSeq(strands[p][3], 1, n),
           AsUsize(strands[p][1]), AsUsize(strands[p][2]))

RECURSIVE AloneCursor(_, _, _, _)
\* the cursor of a search run alone after the first n symbols of text
AloneCursor(t, text, n, j) ==
    IF j > n THEN 0 ELSE Goto(t, AloneCursor(t, text, n, j + 1), text[n - j + 1])

\* C13: with several evaluations interleaved over the one automaton, each
\* with its own cursor and accumulator, every evaluation has at every step
\* the cursor and the sum it has when it runs alone, returns the sum it
\* returns alone, and the result is the one the sequential dna_health gives.
C13_InterleavingSameSums ==
    /\ \A p \in DOMAIN evals :
         evals[p].phase # "idle" =>
             /\ evals[p].total_health = AloneSum(p, evals[p].pos)
             /\ evals[p].current =
                    AloneCursor(trie, strands[p][3], evals[p].pos, 1)
    /\ (pc = "done" /\ evals # <<>>) =>
           /\ \A p \in DOMAIN evals :
                  evals[p].total_health = AloneSum(p, Len(strands[p][3]))
           /\ result = dna_health(genes, health, strands)

\* C13 witness: two evaluations are both in the middle of their texts, on
\* different states of the automaton, each having counted matches.
C13_Witness ==
    /\ evals # <<>>
    /\ \A p \in Procs :
         /\ evals[p].phase = "run"
         /\ evals[p].pos >= 1
         /\ evals[p].pos < Len(evals[p].dna)
         /\ evals[p].total_health # 0
    /\ evals[1].current # evals[2].current
    /\ evals[1].dna # evals[2].dna


RECURSIVE EntriesOf(_, _, _)
\* the (index, weight) entries of the first n patterns whose symbol sequence
\* is str, in the order of insertion, from the j-th pattern on
EntriesOf(str, n, j) ==
    IF j > n THEN <<>>
    ELSE (IF genes[j] = str THEN <<<<j - 1, health[j]>>>> ELSE <<>>)
         \o EntriesOf(str, n, j + 1)

RECURSIVE DuplicateWeight(_, _, _, _)
\* the weights of the patterns equal to str with index in lo..hi, added up
DuplicateWeight(str, lo, hi, j) ==
    IF j > Len(genes) THEN 0
    ELSE (IF genes[j] = str /\ lo <= j - 1 /\ j - 1 <= hi THEN health[j] ELSE 0)
         + DuplicateWeight(str, lo, hi, j + 1)

RECURSIVE SumOverSequences(_, _, _, _)
\* over the distinct symbol sequences of S: occurrences in text times the
\* weight of every duplicate in the range
SumOverSequences(S, text, lo, hi) ==
    IF S = {} THEN 0
    ELSE LET str == CHOOSE x \in S : TRUE
         IN  Occurrences(str, text) * DuplicateWeight(str, lo, hi, 1)
             + SumOverSequences(S \ {str}, text, lo, hi)

\* C14: after each insertion, and after linking and after every query, the
\* terminal state of every inserted pattern holds one (index, weight) entry
\* for each inserted pattern with that symbol sequence, in insertion order,
\* each with its own index and weight; and a query's sum is, for every
\* distinct symbol sequence, its number of occurrences in the text times the
\* weights of all duplicates in the range.
C14_DuplicatesKept ==
    (pc = "build" \/ BetweenQueries) =>
        /\ \A i \in 1..gi :
             /\ StatesOf(trie, genes[i]) # {}
             /\ \A n \in StatesOf(trie, genes[i]) :
                    trie[n].output = EntriesOf(genes[i], gi, 1)
        /\ \A j \in DOMAIN sums :
             sums[j] = SumOverSequences(Range(genes), strands[j][3],
                                        strands[j][1], strands[j][2])

\* C14 witness: two patterns with the same symbols were inserted, their
\* terminal state holds both entries, and a query over both whose text holds
\* the sequence twice has returned the sum of both weights, twice.
C14_Witness ==
    /\ Len(genes) = 2
    /\ genes[1] = genes[2]
    /\ \A n \in StatesOf(trie, genes[1]) :
           trie[n].output = <<<<0, health[1]>>, <<1, health[2]>>>>
    /\ Len(sums) = 1
    /\ strands[1][1] = 0
    /\ strands[1][2] = 1
    /\ Occurrences(genes[1], strands[1][3]) = 2
    /\ sums[1] = 2 * (health[1] + health[2])


\* the ranges (start', end') a query range (s, e) narrows to
Narrowings(s, e) == {r \in (s..e) \X (s..e) : r[1] <= r[2]}

\* the sum search returns for the first query's text over the range r
NarrowedSum(r) == search(trie, strands[1][3], AsUsize(r[1]), AsUsize(r[2]))

\* the weighted occurrences, in the first query's text, of the patterns of
\* its range that the range r leaves out
DroppedSum(r) ==
    OccurrenceSum(genes, health, strands[1][3], strands[1][1], r[1] - 1)
    + OccurrenceSum(genes, health, strands[1][3], r[2] + 1, strands[1][2])

\* every pattern of the first query's range that r leaves out has a weight
\* of at least 0
DroppedNonNegative(r) ==
    \A j \in DOMAIN genes :
        (InRange(j - 1, strands[1][1], strands[1][2]) /\ ~InRange(j - 1, r[1], r[2]))
            => health[j] >= 0

\* C15 as stated: with weights of either sign, no narrowing of a query's
\* range gives a greater sum than the range itself.
C15_NarrowingNeverIncreases ==
    (BetweenQueries /\ Len(sums) = 1) =>
        \A r \in Narrowings(strands[1][1], strands[1][2]) :
            NarrowedSum(r) <= sums[1]

\* C15 amended: narrowing a range takes the weighted occurrences of the
\* patterns left out away from the sum; the narrowed sum is at most the sum
\* whenever every pattern left out has a non-negative weight, whatever the
\* sign of the weights of the patterns kept.
C15_NarrowingDropsLeftOut ==
    (BetweenQueries /\ Len(sums) = 1) =>
        \A r \in Narrowings(strands[1][1], strands[1][2]) :
            /\ NarrowedSum(r) = sums[1] - DroppedSum(r)
            /\ DroppedNonNegative(r) => NarrowedSum(r) <= sums[1]

\* C15 witness: a query over two patterns has returned; narrowing it to the
\* second pattern leaves out an occurring pattern of negative weight and the
\* sum grows, narrowing it to the first leaves out one of positive weight and
\* the sum shrinks.
C15_Witness ==
    /\ BetweenQueries
    /\ Len(sums) = 1
    /\ strands[1][1] = 0
    /\ strands[1][2] = 1
    /\ health[1] < 0
    /\ health[2] > 0
    /\ NarrowedSum(<<1, 1>>) > sums[1]
    /\ NarrowedSum(<<0, 0>>) < sums[1]

\* C16: when no pattern has a negative weight, no narrowing of a query's
\* range gives a greater sum than the range itself, and every sum, returned
\* or in the making, narrowed or not, is at least 0.
C16_NonNegativeMonotone ==
    (\A j \in DOMAIN health : health[j] >= 0) =>
        /\ \A j \in DOMAIN sums : sums[j] >= 0
        /\ pc = "search" => total_health >= 0
        /\ (BetweenQueries /\ Len(sums) = 1) =>
               \A r \in Narrowings(strands[1][1], strands[1][2]) :
                   /\ NarrowedSum(r) <= sums[1]
                   /\ NarrowedSum(r) >= 0

\* C16 witness: a query over two patterns of positive weight, both occurring
\* in its text, has returned, and each narrowing to one pattern gives a
\* smaller sum.
C16_Witness ==
    /\ BetweenQueries
    /\ Len(sums) = 1
    /\ strands[1][1] = 0
    /\ strands[1][2] = 1
    /\ \A j \in DOMAIN health : health[j] > 0
    /\ NarrowedSum(<<0, 0>>) > 0
    /\ NarrowedSum(<<0, 0>>) < sums[1]
    /\ NarrowedSum(<<1, 1>>) > 0
    /\ NarrowedSum(<<1, 1>>) < sums[1]


\* the call of the documentation's example has returned
DocExampleDone ==
    /\ pc = "done"
    /\ genes = <<<<"a">>, <<"a", "a">>>>
    /\ health = <<1, 2>>
    /\ strands = <<<<0, 1, <<"a", "a", "a">>>>>>

C17_EmptyTextZero ==
    /\ \A j \in DOMAIN sums : strands[j][3] = <<>> => sums[j] = 0
    /\ (pc = "search" /\ dna = <<>>) => (total_health = 0 /\ current = 0)
    /\ BetweenQueries =>
           \A r \in Narrowings(0, PatternCount - 1) :
               search(trie, <<>>, AsUsize(r[1]), AsUsize(r[2])) = 0

\* C17 witness: a query with the empty text has returned 0 after a query
\* that returned another sum.
C17_Witness ==
    /\ Len(sums) = 2
    /\ strands[1][3] # <<>>
    /\ sums[1] # 0
    /\ strands[2][3] = <<>>
    /\ sums[2] = 0


\* the symbol ch occurs in no pattern
Foreign(ch) == \A j \in DOMAIN genes : ch \notin Range(genes[j])

\* C18: a text symbol that occurs in no pattern is consumed like any other,
\* the loops of its step end; after it the cursor is the root and the sum is
\* the sum before it; a text of such symbols only has the sum 0.
C18_ForeignSymbolToRoot ==
    /\ (pc = "search" /\ pos < Len(dna) /\ Foreign(dna[pos + 1])) =>
           SearchCharEnds(trie, current, dna[pos + 1])
    /\ (pc = "search" /\ pos >= 1 /\ Foreign(dna[pos])) =>
           /\ current = 0
           /\ total_health =
                  search(trie, SubSeq(dna, 1, pos - 1), start_gene, end_gene)
    /\ \A j \in DOMAIN sums :
           (\A i \in DOMAIN strands[j][3] : Foreign(strands[j][3][i])) =>
               sums[j] = 0

\* C18 witness: a search that stood on a state below the root, having
\* counted a match, has consumed a symbol of no pattern and is at the root.
C18_Witness ==
    /\ pc = "search"
    /\ pos >= 2
    /\ Foreign(dna[pos])
    /\ ~Foreign(dna[pos - 1])
    /\ Goto(trie, 0, dna[pos - 1]) # 0
    /\ total_health # 0
    /\ current = 0


RECURSIVE TimesDigits(_, _, _)
\* the decimal digits of w * n + carry by schoolbook multiplication of the
\* digits of w, least significant first, by n
TimesDigits(w, n, carry) ==
    IF w = 0 THEN (IF carry = 0 THEN <<>> ELSE NatDigits(carry))
    ELSE LET s == (w % 10) * n + carry
         IN  Append(TimesDigits(w \div 10, n, s \div 10), DigitChar[(s % 10) + 1])

\* the decimal numeral of w * n, n >= 0
DecimalProduct(w, n) ==
    IF w = 0 \/ n = 0 THEN <<"0">>
    ELSE IF w < 0 THEN <<"-">> \o TimesDigits(0 - w, n, 0)
         ELSE TimesDigits(w, n, 0)

\* an i64 that is not the sign extension of its low 32 bits
Beyond32Bits(a) ==
    \E j \in 3..LimbCount : a[j] # (IF IsNegativeLimb(a[2]) THEN LimbBase - 1 ELSE 0)

\* C19: with one one-symbol pattern of weight w matched at every position of
\* a text of that symbol, the accumulator after n positions is exactly w * n,
\* also beyond the 32-bit range, and so are the sums returned and the minimum
\* and maximum reported.
C19_SumsExactBeyond32Bits ==
    /\ pc = "search" => FormatI64Limbs(total_health) = DecimalProduct(health[1], pos)
    /\ \A j \in DOMAIN sums :
           FormatI64Limbs(sums[j]) = DecimalProduct(health[1], Len(strands[j][3]))
    /\ (pc = "done" /\ Len(strands) = 2) =>
           result = IF health[1] >= 0
                    THEN DecimalProduct(health[1], WideTextLen \div 2) \o <<" ">>
                         \o DecimalProduct(health[1], WideTextLen)
                    ELSE DecimalProduct(health[1], WideTextLen) \o <<" ">>
                         \o DecimalProduct(health[1], WideTextLen \div 2)

\* C19 witness: both queries returned sums that do not fit 32 bits, and the
\* result holds the two different sums.
C19_Witness ==
    /\ pc = "done"
    /\ Len(sums) = 2
    /\ \A j \in DOMAIN sums : Beyond32Bits(sums[j])
    /\ Beyond32Bits(min_health)
    /\ Beyond32Bits(max_health)
    /\ min_health # max_health
    /\ Len(result) >= 2 * 11 + 1


\* the pattern p is a suffix of s
IsSuffix(p, s) == Len(p) <= Len(s) /\ Suffix(s, Len(p)) = p

\* how many entries of the sequence es carry the pattern index i
EntriesWithIndex(es, i) == Cardinality({n \in DOMAIN es : es[n][1] = i})

\* C21: after the matcher has consumed the symbol at a text position, what
\* its output walk added at that position is the sum over the entries the
\* failure chain of the cursor holds, and those entries are exactly the
\* (index, weight) entries of the patterns that are suffixes of the text
\* consumed, each once: a shorter pattern ending where a longer one ends is
\* among them.
C21_OutputWalkVisitsSuffixPatterns ==
    (pc = "search" /\ pos >= 1) =>
        LET visited == OutputEntries(trie, current)
            consumed == SubSeq(dna, 1, pos)
        IN  /\ total_health =
                   search(trie, SubSeq(dna, 1, pos - 1), start_gene, end_gene)
                   + AddOutputs(visited, 1, start_gene, end_gene, 0)
            /\ \A j \in DOMAIN genes :
                   EntriesWithIndex(visited, j - 1) =
                       (IF IsSuffix(genes[j], consumed) THEN 1 ELSE 0)
            /\ \A n \in DOMAIN visited :
                   /\ visited[n][1] + 1 \in DOMAIN genes
                   /\ visited[n][2] = health[visited[n][1] + 1]

\* C21 witness: at a text position a pattern of two symbols ends together
\* with a pattern that is its last symbol, and the walk visits the entry of
\* the longer at the cursor and of the shorter on the failure chain.
C21_Witness ==
    /\ pc = "search"
    /\ pos >= 2
    /\ Len(trie[current].output) = 1
    /\ Len(OutputEntries(trie, current)) = 2
    /\ Len(genes[trie[current].output[1][1] + 1]) = 2
    /\ total_health = health[1] + health[2]
    /\ start_gene = 0
    /\ end_gene = 1


\* s is a prefix of some pattern
IsPrefixOfSomeGene(s) ==
    \E j \in DOMAIN genes :
        Len(s) <= Len(genes[j]) /\ SubSeq(genes[j], 1, Len(s)) = s

\* C22: after each text symbol consumed the cursor is the state whose path is
\* the longest suffix of the text consumed so far that is a prefix of some
\* pattern; it is the root when only the empty suffix is one.
C22_CursorIsLongestSuffixPrefix ==
    pc = "search" =>
        LET consumed == SubSeq(dna, 1, pos)
            path == PathOf(trie, current)
        IN  /\ current \in DOMAIN trie
            /\ IsSuffix(path, consumed)
            /\ IsPrefixOfSomeGene(path)
            /\ \A n \in 0..pos :
                   IsPrefixOfSomeGene(Suffix(consumed, n)) => n <= Len(path)

\* C22 witness: the cursor stood two symbols deep, had no transition on the
\* next symbol and went by failure links to a shorter suffix that is a
\* prefix of a pattern, not the root.
C22_Witness ==
    /\ pc = "search"
    /\ pos = 3
    /\ IsPrefixOfSomeGene(SubSeq(dna, 1, 2))
    /\ ~IsPrefixOfSomeGene(dna)
    /\ Depth(trie, current) >= 1
    /\ Depth(trie, current) < pos


RECURSIVE FailureChain(_, _, _)
\* the states on the failure chain from n down to the root, at most fuel links
FailureChain(t, n, fuel) ==
    IF n = 0 \/ fuel = 0 THEN {n}
    ELSE {n} \cup FailureChain(t, t[n].failure, fuel - 1)

NoDuplicates(s) == Cardinality(Range(s)) = Len(s)

\* the failure link of x has been assigned: x is a child of the root after
\* LinkInit, or its parent has been popped
FailureAssigned(x) == x \in Range(dequeued) \cup Range(queue)

\* the linker's queue and record at every state of the construction
LinkerOrderly ==
    /\ pc # "hang"
    /\ NoDuplicates(dequeued \o queue)
    /\ 0 \notin Range(dequeued \o queue)
    /\ Range(dequeued \o queue) \subseteq DOMAIN trie
    /\ LET all == dequeued \o queue
       IN  \A i \in 1..(Len(all) - 1) :
               Depth(trie, all[i]) <= Depth(trie, all[i + 1])
    /\ (pc = "link" /\ queue # <<>>) =>
           \A x \in FailureChain(trie, Head(queue), TrieLen(trie)) \ {0} :
               /\ FailureAssigned(x)
               /\ trie[x].failure = LongestSuffixState(trie, x)
    /\ pc = "strands" =>
           /\ queue = <<>>
           /\ Range(dequeued) = DOMAIN trie \ {0}
           /\ Len(dequeued) = TrieLen(trie) - 1

\* a step of the linker's loop pops the head of the queue, records it, and
\* pushes its children, none of which was in the queue or popped before
LinkerStepFifo ==
    (pc = "link" /\ dequeued' # dequeued) =>
        LET u == Head(queue)
            kids == {trie[u].children[ch] : ch \in DOMAIN trie[u].children}
        IN  /\ dequeued' = Append(dequeued, u)
            /\ Len(queue') = Len(queue) - 1 + Cardinality(kids)
            /\ SubSeq(queue', 1, Len(queue) - 1) = Tail(queue)
            /\ {queue'[i] : i \in Len(queue)..Len(queue')} = kids
            /\ kids \cap Range(dequeued \o queue) = {}

\* C23: build_failure_links is breadth-first and terminates: every non-root
\* state enters the queue once and is popped once, the states are popped in
\* non-decreasing depth, when a state is popped to compute its children's
\* links its own failure link and those of the states on its failure chain
\* are assigned and final, and the loop ends with every state popped.
C23_LinkerBreadthFirstTerminates ==
    /\ []LinkerOrderly
    /\ [][LinkerStepFifo]_vars
    /\ <>(pc = "strands")

\* C23 witness: the linker has ended on an automaton whose root has two
\* children with a child each, the two states of depth one popped before
\* the two of depth two.
C23_Witness ==
    /\ pc = "strands"
    /\ Len(dequeued) = 4
    /\ Cardinality(DOMAIN trie[0].children) = 2
    /\ \A ch \in DOMAIN trie[0].children :
           trie[trie[0].children[ch]].children # NoChildren
    /\ Depth(trie, dequeued[2]) = 1
    /\ Depth(trie, dequeued[3]) = 2


\* the prefixes of the first n patterns, and the empty prefix, which the root
\* stands for from the start
PrefixesOfInserted(n) ==
    {<<>>} \cup UNION {{SubSeq(genes[j], 1, l) : l \in 0..Len(genes[j])} : j \in 1..n}

\* the transitions (state, symbol) of t that lead to n
IncomingTransitions(t, n) ==
    {pch \in (DOMAIN t) \X Alphabet :
        ContainsKey(t, pch[1], pch[2]) /\ t[pch[1]].children[pch[2]] = n}

\* C24: after any sequence of add_pattern calls the state table is a trie:
\* the ids are 0..len-1, every transition leads to an existing state other
\* than the root, every state but the root has exactly one incoming
\* transition and the root none, and the paths of the states are, one state
\* each, the distinct prefixes of the patterns inserted (the root being the
\* empty prefix, there before the first insertion).
C24_StateTableIsTrie ==
    /\ DOMAIN trie = 0..(TrieLen(trie) - 1)
    /\ \A n \in DOMAIN trie : \A ch \in DOMAIN trie[n].children :
           trie[n].children[ch] \in DOMAIN trie \ {0}
    /\ IncomingTransitions(trie, 0) = {}
    /\ \A n \in DOMAIN trie \ {0} : Cardinality(IncomingTransitions(trie, n)) = 1
    /\ {PathOf(trie, n) : n \in DOMAIN trie} = PrefixesOfInserted(gi)
    /\ TrieLen(trie) = Cardinality(PrefixesOfInserted(gi))
    /\ \A n \in DOMAIN trie : StatesOf(trie, PathOf(trie, n)) = {n}

\* C24 witness: a second pattern was inserted that shares its first symbol
\* with the first and then leaves its path: the walk followed the existing
\* transition and allocated states from there on.
C24_Witness ==
    /\ pc = "build"
    /\ gi = 2
    /\ Len(genes[1]) = 2
    /\ Len(genes[2]) = 2
    /\ genes[1][1] = genes[2][1]
    /\ genes[1] # genes[2]
    /\ TrieLen(trie) = 4
    /\ Cardinality(DOMAIN trie[1].children) = 2


\* s is an initial part of r
IsPrefixSeq(s, r) == Len(s) <= Len(r) /\ SubSeq(r, 1, Len(s)) = s

\* before build_failure_links runs every failure field is the root
FailureUnassigned == pc = "build" => \A n \in DOMAIN trie : trie[n].failure = 0

\* an insertion keeps every state, every transition with its target, and
\* every output entry, and leaves every failure field as it is
InsertionKeeps ==
    gi' # gi =>
        \A n \in DOMAIN trie :
            /\ n \in DOMAIN trie'
            /\ \A ch \in DOMAIN trie[n].children :
                   /\ ContainsKey(trie', n, ch)
                   /\ trie'[n].children[ch] = trie[n].children[ch]
            /\ IsPrefixSeq(trie[n].output, trie'[n].output)
            /\ trie'[n].failure = trie[n].failure

\* C25: add_pattern assigns no failure link: after any insertions and before
\* build_failure_links runs every state's failure field is 0; and an
\* insertion removes or retargets no existing transition and removes no
\* existing output entry.
C25_InsertionAssignsNoLinks == []FailureUnassigned /\ [][InsertionKeeps]_vars

\* C25 witness: two insertions walked the same two transitions and ended on
\* the same state, which holds both entries; every failure field is still 0.
C25_Witness ==
    /\ pc = "build"
    /\ gi = 2
    /\ TrieLen(trie) = 3
    /\ Len(trie[2].output) = 2
    /\ \A n \in DOMAIN trie : trie[n].failure = 0


\* the places (state, position in its output) of the entries with index i
EntryPlaces(t, i) ==
    {np \in (DOMAIN t) \X (1..Len(genes)) :
        np[2] <= Len(t[np[1]].output) /\ t[np[1]].output[np[2]][1] = i}

\* every pattern has its one entry, at the state of its path, with its weight
EveryPatternOneEntry ==
    (gi = Len(genes)) =>
        \A i \in DOMAIN genes :
            /\ Cardinality(EntryPlaces(trie, i - 1)) = 1
            /\ \A np \in EntryPlaces(trie, i - 1) :
                   /\ PathOf(trie, np[1]) = genes[i]
                   /\ trie[np[1]].output[np[2]][2] = health[i]

\* a step of build_failure_links keeps the states, their transitions and
\* their outputs
LinkingKeeps ==
    (gi' = gi) =>
        /\ DOMAIN trie' = DOMAIN trie
        /\ \A n \in DOMAIN trie :
               /\ trie'[n].children = trie[n].children
               /\ trie'[n].output = trie[n].output

\* C30: once dna_health has inserted all patterns, and still after linking,
\* every pattern index appears in exactly one output entry of exactly one
\* state, whose path is the pattern and whose weight is the pattern's health;
\* linking changes failure fields only.
C30_OneEntryPerPattern == []EveryPatternOneEntry /\ [][LinkingKeeps]_vars

\* C30 witness: linking has ended on an automaton in which one pattern is
\* the last symbol of the other, so that the failure link of the longer
\* pattern's state leads to the shorter pattern's state; each state holds
\* its own entry only.
C30_Witness ==
    /\ pc = "strands"
    /\ Len(genes) = 2
    /\ \E n \in DOMAIN trie :
           /\ Len(trie[n].output) = 1
           /\ trie[n].failure # 0
           /\ Len(trie[trie[n].failure].output) = 1
           /\ trie[n].output # trie[trie[n].failure].output


\* C26: with no pattern inserted the automaton is the root alone; linking
\* ends at once and leaves it as it is, and every query, whatever its range
\* and text, keeps the cursor at the root and returns 0.
C26_EmptyAutomatonZero ==
    genes = <<>> =>
        /\ trie = AhoCorasickNew
        /\ queue = <<>>
        /\ pc \in {"build", "strands", "search", "done"}
        /\ \A j \in DOMAIN sums : sums[j] = 0
        /\ pc = "search" => (current = 0 /\ total_health = 0)
        /\ BetweenQueries =>
               \A st \in AnyStrands(0, RawTextLen + 1) :
                   search(trie, st[3], AsUsize(st[1]), AsUsize(st[2])) = 0
        /\ (pc = "done" /\ strands # <<>>) => result = <<"0", " ", "0">>

\* C26 witness: dna_health has returned "0 0" for a query with a text of one
\* symbol over no patterns.
C26_Witness ==
    /\ genes = <<>>
    /\ pc = "done"
    /\ Len(strands) = 1
    /\ Len(strands[1][3]) = 1
    /\ sums = <<0>>
    /\ result = <<"0", " ", "0">>


\* the decimal numerals of 2^63 - 1 and of -2^63
I64MaxNumeral ==
    <<"9", "2", "2", "3", "3", "7", "2", "0", "3", "6",
      "8", "5", "4", "7", "7", "5", "8", "0", "7">>

I64MinNumeral ==
    <<"-", "9", "2", "2", "3", "3", "7", "2", "0", "3", "6",
      "8", "5", "4", "7", "7", "5", "8", "0", "8">>

\* C27: with no query dna_health returns the sentinels it started from,
\* i64::MAX as the minimum and i64::MIN as the maximum, the minimum above the
\* maximum; with one or more queries the minimum reported is at most the
\* maximum reported.
C27_ZeroQueriesSentinels ==
    /\ pc # "hang"
    /\ (pc = "done" /\ strands = <<>>) =>
           /\ result = I64MaxNumeral \o <<" ">> \o I64MinNumeral
           /\ ~LeI64(min_health, max_health)
    /\ (pc = "done" /\ strands # <<>>) =>
           /\ LeI64(min_health, max_health)
           /\ result = FormatI64Limbs(min_health) \o <<" ">> \o FormatI64Limbs(max_health)
           /\ \E j \in DOMAIN sums : min_health = sums[j]
           /\ \E j \in DOMAIN sums : max_health = sums[j]

\* C27 witness: dna_health has returned for an empty list of queries.
C27_Witness ==
    /\ pc = "done"
    /\ strands = <<>>
    /\ sums = <<>>
    /\ Len(result) = 19 + 1 + 20


\* the health values with 0 for every empty pattern
HealthWithoutEmpty == [j \in DOMAIN genes |-> IF genes[j] = <<>> THEN 0 ELSE health[j]]

\* C28: an empty pattern inserted has its (index, weight) entry in the
\* root's output; no search adds that weight: every sum is the weighted
\* occurrence count of the non-empty patterns of the range alone, while
\* dna_health_naive, where it does not panic, counts an empty pattern of the
\* range once for every text position.
C28_EmptyPatternNeverCounted ==
    /\ \A j \in 1..gi :
           genes[j] = <<>> =>
               \E n \in DOMAIN trie[0].output :
                   trie[0].output[n] = <<j - 1, health[j]>>
    /\ \A j \in DOMAIN sums :
           sums[j] = OccurrenceSum(genes, HealthWithoutEmpty, strands[j][3],
                                   AsUsize(strands[j][1]), AsUsize(strands[j][2]))
    /\ (pc = "done" /\ Len(strands) = 1
            /\ dna_health_naive(genes, health, strands) # NaivePanic) =>
           LET s == strands[1][1]
               e == strands[1][2]
               text == strands[1][3]
               naive == sums[1] + DuplicateWeight(<<>>, s, e, 1) * Len(text)
           IN  dna_health_naive(genes, health, strands) = FormatResult(naive, naive)

\* C28 witness: with the empty pattern and a pattern of one symbol, a query
\* over both whose text is that symbol has returned the weight of the second
\* pattern alone, and the naive scan gives the sum of both weights.
C28_Witness ==
    /\ pc = "done"
    /\ Len(genes) = 2
    /\ genes[1] = <<>>
    /\ genes[2] # <<>>
    /\ trie[0].output = <<<<0, health[1]>>>>
    /\ strands = <<<<0, 1, genes[2]>>>>
    /\ sums = <<health[2]>>
    /\ dna_health_naive(genes, health, strands)
           = FormatResult(health[1] + health[2], health[1] + health[2])


\* the automaton of the genes inserted in the order `order` and linked
BuiltInOrder(order) ==
    build_failure_links(AddAllInOrder(AhoCorasickNew, genes, health, order, 1))

\* C29: the sum of a query does not depend on the order of the add_pattern
\* calls: with the patterns inserted in any order, each with its own index
\* and weight, search returns for the query's text and range the sum it
\* returns on the automaton dna_health built.
C29_InsertionOrderIrrelevant ==
    (BetweenQueries /\ Len(sums) = 1) =>
        \A order \in Orders(DOMAIN genes) :
            search(BuiltInOrder(order), strands[1][3],
                   AsUsize(strands[1][1]), AsUsize(strands[1][2])) = sums[1]

\* C29 witness: two patterns that share no state have been inserted, so that
\* the other order of insertion numbers the states differently, and a query
\* matching both has returned.
C29_Witness ==
    /\ BetweenQueries
    /\ Len(sums) = 1
    /\ Len(genes) = 2
    /\ BuiltInOrder(<<2, 1>>) # BuiltInOrder(<<1, 2>>)
    /\ PathOf(BuiltInOrder(<<2, 1>>), 1) # PathOf(trie, 1)
    /\ Occurrences(genes[1], strands[1][3]) >= 1
    /\ Occurrences(genes[2], strands[1][3]) >= 1
    /\ strands[1][1] = 0
    /\ strands[1][2] = 1
    /\ sums[1] # 0

=============================================================================
